---- MODULE Spec2Model ----
(***************************************************************************)
(* The capability-taxonomy pipeline of app.py (Flask route                 *)
(* /generate-capabilities, function test_gemini) and of streamlit_app.py   *)
(* (the "Generate Capabilities" button), with the functions they share:    *)
(* sanitize_response, generate_capabilities_chunk, merge_capabilities,     *)
(* generate_l2_capabilities, merge_l1_to_l2 / merge_l2_capabilities and    *)
(* generate_csv.                                                           *)
(*                                                                         *)
(* Python values are records tagged with their Python type in the field    *)
(* py; a dict is a record whose other fields are its keys, so (k in d) is  *)
(* k \in DOMAIN d.  A list is a sequence.  A text is a sequence of         *)
(* characters; a character of DocNames stands for the characters of one    *)
(* complete JSON document (which hold no backtick and no outer blank).     *)
(* A call that may raise returns [ok |-> TRUE, val |-> v] or               *)
(* [ok |-> FALSE, exc |-> e].                                              *)
(***************************************************************************)
EXTENDS Integers, Sequences, FiniteSets, TLC

\* ------------------------------------------------------------------ bounds
\* streamlit_app.py:146 asks for range(10) batches; the model asks for this many.
MaxStreamlitBatches == 3
\* The longest chunk list handed to merge in MergeSpec.
MaxChunks == 2

\* --------------------------------------------------------- program constants
\* app.py:244, for _ in range(1)
AppBatches == 1
\* app.py:246 and streamlit_app.py:148, chunk_size=2
ChunkSize == 2
\* app.py:249 and app.py:255, the HTTP status of an error payload
ErrorStatus == 500

\* ------------------------------------------------------------ Python values
PyStr(text) == [py |-> "str", text |-> text]
PyNone == [py |-> "NoneType"]

Ok(v) == [ok |-> TRUE, val |-> v]
Raise(type, msg) == [ok |-> FALSE, exc |-> [type |-> type, msg |-> msg, cause |-> "none"]]
RaiseFrom(type, msg, e) == [ok |-> FALSE, exc |-> [type |-> type, msg |-> msg, cause |-> e.type]]

L2Node(n, d) == [py |-> "dict", L2_capability |-> n, L2_capability_description |-> d]
L1Node(n, d) == [py |-> "dict", L1_capability |-> n, L1_capability_description |-> d]
L0Node(n, d, l1s) ==
  [py |-> "dict", L0_capability |-> n, L0_capability_description |-> d,
   L1_capabilities |-> l1s]
Batch(ind, desc, l0s, c0, c1, c2) ==
  [py |-> "dict", industry |-> ind, industry_description |-> desc,
   L0_capabilities |-> l0s, L0_capabilities_count |-> c0,
   L1_capabilities_count |-> c1, L2_capabilities_count |-> c2]

\* ------------------------------------------------------------ JSON documents
\* The documents the generator is let to answer with.
\* {B1}: the batch of the mandated shape with one L0 and one L1.
\* {B2}: a batch with two L0s whose L1s repeat a name, and advisory counts
\*       (1, 20, 0) that are not the numbers of its nodes.
\* {B3}: a batch with empty industry fields and no L0.
\* {B4}: a batch in the shape streamlit_app.py asks for: no count fields.
\* 'S1', 'S2', 'SX': JSON string literals, holding the text of {B1}, of {B2}
\*       and a text that is no JSON.
\* null: the JSON null.
\* [L2a]: an array of two well-formed L2 objects; [L2m]: an array with an
\*       object lacking its description, a string and a well-formed object;
\*       []: the empty array.
L0DocNames == {"{B1}", "{B2}", "{B3}", "{B4}"}
L2DocNames == {"[L2a]", "[L2m]", "[]"}
DocNames == L0DocNames \cup L2DocNames \cup {"'S1'", "'S2'", "'SX'", "null"}

NotJson == <<"S", "o", "r", "r", "y">>

DocValue(doc) ==
  CASE doc = "{B1}" ->
         Batch("Retail", "d",
               <<L0Node("A", "da", <<L1Node("A1", "d1")>>)>>, 1, 1, 0)
    [] doc = "{B2}" ->
         Batch("Health", "h",
               <<L0Node("B", "db", <<L1Node("A1", "d1")>>),
                 L0Node("C", "dc", <<L1Node("A1", "d1")>>)>>,
               1, 20, 0)
    [] doc = "{B3}" -> Batch("", "", <<>>, 0, 0, 0)
    [] doc = "{B4}" ->
         [py |-> "dict", industry |-> "Retail", industry_description |-> "d",
          L0_capabilities |-> <<L0Node("D", "dd", <<L1Node("D1", "e1")>>)>>]
    [] doc = "'S1'" -> PyStr(<<"{B1}">>)
    [] doc = "'S2'" -> PyStr(<<"{B2}">>)
    [] doc = "'SX'" -> PyStr(NotJson)
    [] doc = "null" -> PyNone
    [] doc = "[L2a]" -> <<L2Node("X", "y"), L2Node("W", "v")>>
    [] doc = "[L2m]" ->
         <<[py |-> "dict", L2_capability |-> "Z"], PyStr(<<"Q">>), L2Node("X", "y")>>
    [] doc = "[]" -> <<>>

\* -------------------------------------------------------------------- texts
Whitespace == {" ", "\n"}
\* The backtick character (a backtick cannot be written in a TLA+ string).
Backtick == "BACKTICK"
Fence == <<Backtick, Backtick, Backtick>>
FenceJson == Fence \o <<"j", "s", "o", "n">>
Fenced(doc) == FenceJson \o <<"\n", doc, "\n">> \o Fence

\* str.replace(old, new): the occurrences of old, found left to right without
\* overlap, replaced by new.
RECURSIVE str_replace(_, _, _)
str_replace(s, old, new) ==
  IF Len(s) < Len(old) THEN s
  ELSE IF SubSeq(s, 1, Len(old)) = old
       THEN new \o str_replace(SubSeq(s, Len(old) + 1, Len(s)), old, new)
       ELSE <<Head(s)>> \o str_replace(Tail(s), old, new)

RECURSIVE str_lstrip(_)
str_lstrip(s) ==
  IF Len(s) > 0 /\ Head(s) \in Whitespace THEN str_lstrip(Tail(s)) ELSE s

RECURSIVE str_rstrip(_)
str_rstrip(s) ==
  IF Len(s) > 0 /\ s[Len(s)] \in Whitespace
  THEN str_rstrip(SubSeq(s, 1, Len(s) - 1)) ELSE s

\* str.strip()
str_strip(s) == str_rstrip(str_lstrip(s))

\* sanitize_response, and before it two slips of it: the blanks stripped
\* before the markers are removed, and the word json removed wherever it is.
sanitize_response_strip_first(response_text) ==
  str_replace(str_replace(str_strip(response_text), FenceJson, <<>>), Fence, <<>>)

sanitize_response_json_anywhere(response_text) ==
  str_strip(str_replace(str_replace(response_text, <<"j", "s", "o", "n">>, <<>>), Fence, <<>>))

sanitize_response(response_text) ==
  str_strip(str_replace(str_replace(response_text, FenceJson, <<>>), Fence, <<>>))

\* json.loads(v): TypeError unless v is a str; JSONDecodeError unless its text
\* is one document with blanks around it.
json_loads(v) ==
  IF v.py # "str"
  THEN Raise("TypeError", "the JSON object must be str, bytes or bytearray")
  ELSE LET s == str_strip(v.text)
       IN  IF Len(s) = 1 /\ s[1] \in DocNames
           THEN Ok(DocValue(s[1]))
           ELSE Raise("JSONDecodeError", "Expecting value")


\* --------------------------------------------------- the generator's answers
\* One call of model.generate_content raises, or returns a text.
NoExc == [type |-> "none", msg |-> "", cause |-> "none"]
CallRaises ==
  [raised |-> TRUE, text |-> <<>>,
   exc |-> [type |-> "ResourceExhausted", msg |-> "429 quota exceeded", cause |-> "none"]]
Answer(text) == [raised |-> FALSE, text |-> text, exc |-> NoExc]

L0Outcomes ==
  {CallRaises, Answer(NotJson), Answer(Fenced("{B1}")), Answer(<<"{B2}">>),
   Answer(<<"'S1'">>), Answer(Fenced("'S2'")), Answer(<<"'SX'">>), Answer(<<"null">>)}
L2Outcomes ==
  {CallRaises, Answer(NotJson), Answer(Fenced("[L2a]")), Answer(<<"[L2m]">>),
   Answer(<<"[]">>)}

\* ------------------------------------------------ generate_capabilities_chunk
ApiErrorMsg == "API exhausted or an error occurred while generating content"

\* The prompt, as far as the pipeline decides it: the industry, the batches
\* already generated ({chunks}) and the batch size (l0_prompt).  Before it, a
\* slip of it: the batches already generated left out.
l0_prompt_no_context(industry_, chunks_, chunk_size) ==
  [industry |-> industry_, already |-> <<>>, chunk_size |-> chunk_size]

l0_prompt(industry_, chunks_, chunk_size) ==
  [industry |-> industry_, already |-> chunks_, chunk_size |-> chunk_size]

\* app.py: the call and the parse sit in one try; whatever is raised becomes
\* the same RuntimeError, chained to its cause.
app_generate_capabilities_chunk(r) ==
  IF r.raised THEN RaiseFrom("RuntimeError", ApiErrorMsg, r.exc)
  ELSE LET p == json_loads(PyStr(sanitize_response(r.text)))
       IN  IF p.ok THEN p ELSE RaiseFrom("RuntimeError", ApiErrorMsg, p.exc)

\* streamlit_app.py: no try; what the call or json.loads raises goes up as is.
st_generate_capabilities_chunk(r) ==
  IF r.raised THEN [ok |-> FALSE, exc |-> r.exc]
  ELSE json_loads(PyStr(sanitize_response(r.text)))

\* --------------------------------------------------- generate_l2_capabilities
\* app.py: returns the sanitized text, not parsed; a failed call becomes a
\* RuntimeError.
app_generate_l2_capabilities(r) ==
  IF r.raised THEN RaiseFrom("RuntimeError", ApiErrorMsg, r.exc)
  ELSE Ok(PyStr(sanitize_response(r.text)))

\* streamlit_app.py: returns the parsed answer.
st_generate_l2_capabilities(r) ==
  IF r.raised THEN [ok |-> FALSE, exc |-> r.exc]
  ELSE json_loads(PyStr(sanitize_response(r.text)))

\* ---------------------------------------------------------------- dict help
\* d[k] = v on a dict
SetKey(d, k, v) == [x \in DOMAIN d \cup {k} |-> IF x = k THEN v ELSE d[x]]

\* The first key of keys (a sequence, in the order the code reads them) that
\* d lacks, or "" when it has them all.
RECURSIVE FirstMissing(_, _)
FirstMissing(d, keys) ==
  IF Len(keys) = 0 THEN ""
  ELSE IF Head(keys) \notin DOMAIN d THEN Head(keys)
       ELSE FirstMissing(d, Tail(keys))

\* ------------------------------------------------------- merge_capabilities
BatchKeys ==
  <<"industry", "industry_description", "L0_capabilities",
    "L0_capabilities_count", "L1_capabilities_count", "L2_capabilities_count">>

\* One pass of the loop body after the parse: the industry fields are
\* overwritten, the L0 list is extended, the counts are summed (merge_chunk).
\* Before it, two slips of it: the industry fields kept once set, and the L0
\* list cut to the advisory count.
merge_first_wins(merged, chunk_json) ==
  [merged EXCEPT
     !.industry = IF @ = "" THEN chunk_json.industry ELSE @,
     !.industry_description = IF @ = "" THEN chunk_json.industry_description ELSE @,
     !.L0_capabilities = @ \o chunk_json.L0_capabilities,
     !.L0_capabilities_count = @ + chunk_json.L0_capabilities_count,
     !.L1_capabilities_count = @ + chunk_json.L1_capabilities_count,
     !.L2_capabilities_count = @ + chunk_json.L2_capabilities_count]

merge_by_count(merged, chunk_json) ==
  [merged EXCEPT
     !.industry = chunk_json.industry,
     !.industry_description = chunk_json.industry_description,
     !.L0_capabilities =
        @ \o SubSeq(chunk_json.L0_capabilities, 1,
                    IF chunk_json.L0_capabilities_count < Len(chunk_json.L0_capabilities)
                    THEN chunk_json.L0_capabilities_count
                    ELSE Len(chunk_json.L0_capabilities)),
     !.L0_capabilities_count = @ + chunk_json.L0_capabilities_count,
     !.L1_capabilities_count = @ + chunk_json.L1_capabilities_count,
     !.L2_capabilities_count = @ + chunk_json.L2_capabilities_count]

merge_chunk(merged, chunk_json) ==
  [merged EXCEPT
     !.industry = chunk_json.industry,
     !.industry_description = chunk_json.industry_description,
     !.L0_capabilities = @ \o chunk_json.L0_capabilities,
     !.L0_capabilities_count = @ + chunk_json.L0_capabilities_count,
     !.L1_capabilities_count = @ + chunk_json.L1_capabilities_count,
     !.L2_capabilities_count = @ + chunk_json.L2_capabilities_count]

\* The loop of merge_capabilities: json.loads(chunk) raises TypeError on a
\* chunk that is no str (not caught) or JSONDecodeError (turned into
\* ValueError); reading a key of the parsed chunk raises TypeError when it is
\* no dict and KeyError when the key is missing.
RECURSIVE merge_loop(_, _)
merge_loop(merged, chunks_) ==
  IF Len(chunks_) = 0 THEN Ok(merged)
  ELSE LET loaded == json_loads(Head(chunks_))
       IN  IF ~loaded.ok
           THEN IF loaded.exc.type = "JSONDecodeError"
                THEN Raise("ValueError", "Invalid JSON received from the API")
                ELSE loaded
           ELSE IF loaded.val.py # "dict"
                THEN Raise("TypeError", "object is not subscriptable by a key")
                ELSE IF FirstMissing(loaded.val, BatchKeys) # ""
                     THEN Raise("KeyError", FirstMissing(loaded.val, BatchKeys))
                     ELSE merge_loop(merge_chunk(merged, loaded.val), Tail(chunks_))

merge_capabilities(chunks_) == merge_loop(Batch("", "", <<>>, 0, 0, 0), chunks_)

\* ------------------------------------- the merge loop of streamlit_app.py
st_merge_chunk(cc, chunk) ==
  [cc EXCEPT !.L0_capabilities = @ \o chunk.L0_capabilities]

RECURSIVE st_merge_loop(_, _)
st_merge_loop(cc, chunks_) ==
  IF Len(chunks_) = 0 THEN Ok(cc)
  ELSE LET chunk == Head(chunks_)
       IN  IF chunk.py # "dict"
           THEN Raise("TypeError", "indices must be integers")
           ELSE IF "L0_capabilities" \notin DOMAIN chunk
                THEN Raise("KeyError", "L0_capabilities")
                ELSE st_merge_loop(st_merge_chunk(cc, chunk), Tail(chunks_))

st_merge(industry_, chunks_) ==
  st_merge_loop([py |-> "dict", industry |-> industry_,
                 industry_description |-> "Generated description",
                 L0_capabilities |-> <<>>], chunks_)

\* ------------------------------------------------------------- tree walks
\* The L1 nodes of a tree in document order, as <<i, j>>: L1 j of L0 i.
RECURSIVE PositionsFrom(_, _)
PositionsFrom(l0s, i) ==
  IF i > Len(l0s) THEN <<>>
  ELSE [j \in 1..Len(l0s[i].L1_capabilities) |-> <<i, j>>] \o PositionsFrom(l0s, i + 1)

L1Positions(tree) == PositionsFrom(tree.L0_capabilities, 1)
L1At(tree, pos) == tree.L0_capabilities[pos[1]].L1_capabilities[pos[2]]

\* app.py: all_l1_capabilities, every L0's L1 list appended in order.
all_l1_of(tree) == [k \in 1..Len(L1Positions(tree)) |-> L1At(tree, L1Positions(tree)[k])]

\* l1.get("L2_capabilities", [])
get_L2_capabilities(l1) ==
  IF "L2_capabilities" \in DOMAIN l1 THEN l1.L2_capabilities ELSE <<>>

\* ----------------------------------------------------------- the L2 attach
\* app.py, one pass of the L2 loop: the request, json.loads of the text it
\* returned, and the item kept for merge_l1_to_l2; nothing is caught
\* (app_l2_item).  Before it, a slip of it: a failure is swallowed and the
\* item kept with no L2.
app_l2_item_swallow(l1, r) ==
  LET g == app_generate_l2_capabilities(r)
      res == IF g.ok THEN json_loads(g.val) ELSE g
  IN  Ok([py |-> "dict", L1_capability |-> l1.L1_capability,
          L1_capability_description |-> l1.L1_capability_description,
          L2_capabilities |-> IF res.ok THEN res.val ELSE <<>>])

app_l2_item(l1, r) ==
  LET g == app_generate_l2_capabilities(r)
  IN  IF ~g.ok THEN g
      ELSE LET res == json_loads(g.val)
           IN  IF ~res.ok THEN res
               ELSE Ok([py |-> "dict", L1_capability |-> l1.L1_capability,
                        L1_capability_description |-> l1.L1_capability_description,
                        L2_capabilities |-> res.val])

\* merge_l1_to_l2, the innermost loop: every item of l2_capabilities whose
\* name and description equal the L1's sets the L1's L2_capabilities.
RECURSIVE attach_matches(_, _)
attach_matches(l1_item, l2_capabilities) ==
  IF Len(l2_capabilities) = 0 THEN l1_item
  ELSE LET l2_item == Head(l2_capabilities)
           hit == /\ l2_item.L1_capability = l1_item.L1_capability
                  /\ l2_item.L1_capability_description = l1_item.L1_capability_description
       IN  attach_matches(IF hit
                          THEN SetKey(l1_item, "L2_capabilities", l2_item.L2_capabilities)
                          ELSE l1_item,
                          Tail(l2_capabilities))

\* merge_l1_to_l2, over every L1 of every L0.  Before it, a slip of it: only
\* the first L0 is walked.
merge_l1_to_l2_first_l0(l1_capabilities, l2_capabilities) ==
  [l1_capabilities EXCEPT !.L0_capabilities =
     [i \in 1..Len(l1_capabilities.L0_capabilities) |->
        IF i > 1 THEN l1_capabilities.L0_capabilities[i]
        ELSE [l1_capabilities.L0_capabilities[i] EXCEPT !.L1_capabilities =
                [j \in 1..Len(l1_capabilities.L0_capabilities[i].L1_capabilities) |->
                   attach_matches(l1_capabilities.L0_capabilities[i].L1_capabilities[j],
                                  l2_capabilities)]]]]

merge_l1_to_l2(l1_capabilities, l2_capabilities) ==
  [l1_capabilities EXCEPT !.L0_capabilities =
     [i \in 1..Len(l1_capabilities.L0_capabilities) |->
        [l1_capabilities.L0_capabilities[i] EXCEPT !.L1_capabilities =
           [j \in 1..Len(l1_capabilities.L0_capabilities[i].L1_capabilities) |->
              attach_matches(l1_capabilities.L0_capabilities[i].L1_capabilities[j],
                             l2_capabilities)]]]]

\* streamlit_app.py, merge_l2_capabilities: l1["L2_capabilities"] = l2_capabilities
\* on the L1 at pos, in place.
st_attach(tree, pos, l2_capabilities) ==
  [tree EXCEPT !.L0_capabilities[pos[1]].L1_capabilities[pos[2]] =
     SetKey(@, "L2_capabilities", l2_capabilities)]

\* ------------------------------------------------------------ generate_csv
Headers ==
  <<"Industry", "Industry Description", "L0 Capability",
    "L0 Capability Description", "L0 Capability Level",
    "L1 Capability", "L1 Capability Description", "L1 Capability Level",
    "L2 Capability", "L2 Capability Description", "L2 Capability Level">>

\* One row of the table (csv_row).  Before it, a slip of it: the L0 and L1
\* names in each other's column.
csv_row_names_swapped(cc, l0, l1, l2) ==
  <<cc.industry, cc.industry_description,
    l1.L1_capability, l0.L0_capability_description, "0",
    l0.L0_capability, l1.L1_capability_description, "1",
    l2.L2_capability, l2.L2_capability_description, "2">>

csv_row(cc, l0, l1, l2) ==
  <<cc.industry, cc.industry_description,
    l0.L0_capability, l0.L0_capability_description, "0",
    l1.L1_capability, l1.L1_capability_description, "1",
    l2.L2_capability, l2.L2_capability_description, "2">>

\* streamlit_app.py: isinstance(l2, dict) and both keys in l2
is_valid_l2(l2) ==
  /\ l2.py = "dict"
  /\ "L2_capability" \in DOMAIN l2
  /\ "L2_capability_description" \in DOMAIN l2

\* app.py, the loop over an L1's L2 items: l2_item["L2_capability"] raises
\* TypeError on an item that is no dict and KeyError on a missing key, and
\* nothing catches it.
RECURSIVE app_l2_rows(_, _, _, _)
app_l2_rows(cc, l0, l1, l2s) ==
  IF Len(l2s) = 0 THEN Ok(<<>>)
  ELSE LET l2 == Head(l2s)
       IN  IF l2.py # "dict"
           THEN Raise("TypeError", "string indices must be integers")
           ELSE IF FirstMissing(l2, <<"L2_capability", "L2_capability_description">>) # ""
                THEN Raise("KeyError",
                           FirstMissing(l2, <<"L2_capability", "L2_capability_description">>))
                ELSE LET rest == app_l2_rows(cc, l0, l1, Tail(l2s))
                     IN  IF rest.ok THEN Ok(<<csv_row(cc, l0, l1, l2)>> \o rest.val)
                         ELSE rest

RECURSIVE app_l1_rows(_, _, _)
app_l1_rows(cc, l0, l1s) ==
  IF Len(l1s) = 0 THEN Ok(<<>>)
  ELSE LET first == app_l2_rows(cc, l0, Head(l1s), get_L2_capabilities(Head(l1s)))
       IN  IF ~first.ok THEN first
           ELSE LET rest == app_l1_rows(cc, l0, Tail(l1s))
                IN  IF rest.ok THEN Ok(first.val \o rest.val) ELSE rest

RECURSIVE app_l0_rows(_, _)
app_l0_rows(cc, l0s) ==
  IF Len(l0s) = 0 THEN Ok(<<>>)
  ELSE LET first == app_l1_rows(cc, Head(l0s), Head(l0s).L1_capabilities)
       IN  IF ~first.ok THEN first
           ELSE LET rest == app_l0_rows(cc, Tail(l0s))
                IN  IF rest.ok THEN Ok(first.val \o rest.val) ELSE rest

\* app.py generate_csv: the header, then the rows; the csv text is kept as
\* its sequence of records.
app_generate_csv(complete) ==
  LET rows == app_l0_rows(complete, complete.L0_capabilities)
  IN  IF rows.ok THEN Ok(<<Headers>> \o rows.val) ELSE rows

\* streamlit_app.py, the loop over an L1's L2 items: an item that fails the
\* check writes no row.
RECURSIVE st_l2_rows(_, _, _, _)
st_l2_rows(cc, l0, l1, l2s) ==
  IF Len(l2s) = 0 THEN <<>>
  ELSE (IF is_valid_l2(Head(l2s)) THEN <<csv_row(cc, l0, l1, Head(l2s))>> ELSE <<>>)
       \o st_l2_rows(cc, l0, l1, Tail(l2s))

RECURSIVE st_l1_rows(_, _, _)
st_l1_rows(cc, l0, l1s) ==
  IF Len(l1s) = 0 THEN <<>>
  ELSE st_l2_rows(cc, l0, Head(l1s), get_L2_capabilities(Head(l1s)))
       \o st_l1_rows(cc, l0, Tail(l1s))

RECURSIVE st_l0_rows(_, _)
st_l0_rows(cc, l0s) ==
  IF Len(l0s) = 0 THEN <<>>
  ELSE st_l1_rows(cc, Head(l0s), Head(l0s).L1_capabilities) \o st_l0_rows(cc, Tail(l0s))

st_generate_csv(complete) ==
  Ok(<<Headers>> \o st_l0_rows(complete, complete.L0_capabilities))

\* -------------------------------------------------------------------- state
Drivers == {"app", "streamlit"}
Industries == {"Healthcare"}

VARIABLES
  driver,                \* which front end runs: test_gemini of app.py, or streamlit_app.py
  industry,              \* the industry asked for
  pc,                    \* where the run is
  chunks,                \* the batches generated so far
  calls,                 \* every call of the generator so far: prompt and answer
  complete_capabilities, \* the merged tree (None before the merge)
  all_l1_capabilities,   \* app.py: the L1 nodes to get L2s for
  l2_chunks,             \* app.py: the items kept for merge_l1_to_l2
  current,               \* the number of L1 nodes whose L2 request is done
  outcome,                \* how the run ended
  call_seconds,          \* seconds the generator takes to answer a request in this run
  elapsed_time,          \* merge_l2_capabilities: seconds since start_time at the last report
  remaining_time,        \* merge_l2_capabilities: the remaining time last reported
  response_text,         \* the text handed to sanitize_response
  sanitized              \* what sanitize_response returned for it

vars ==
  <<driver, industry, pc, chunks, calls, complete_capabilities,
    all_l1_capabilities, l2_chunks, current, outcome,
    call_seconds, elapsed_time, remaining_time, response_text, sanitized>>

Running == [kind |-> "running", stage |-> "", exc |-> NoExc, payload |-> <<>>, csv |-> <<>>]

\* return jsonify({"error": ..., "details": str(e)}), 500
ErrorPayload(stage, error, e) ==
  [kind |-> "error_payload", stage |-> stage, exc |-> e,
   payload |-> <<[error |-> error, details |-> e.msg], ErrorStatus>>, csv |-> <<>>]
\* an exception nothing in the run catches
Uncaught(stage, e) ==
  [kind |-> "exception", stage |-> stage, exc |-> e, payload |-> <<>>, csv |-> <<>>]
\* st.error(f"Error during generation: {str(e)}"); st.stop()
StError(stage, e) ==
  [kind |-> "st_error", stage |-> stage, exc |-> e,
   payload |-> <<[error |-> "Error during generation", details |-> e.msg]>>, csv |-> <<>>]
\* the csv text handed to the caller
CsvOut(rows) ==
  [kind |-> "csv", stage |-> "csv", exc |-> NoExc, payload |-> <<>>, csv |-> rows]

\* Seconds a call of generate_l2_capabilities may take: an immediate answer
\* or a slow one.
Latencies == {0, 3}
\* A run of app.py reports no time.
CallSeconds == IF driver = "streamlit" THEN Latencies ELSE {0}

Init ==
  /\ driver \in Drivers
  /\ industry \in Industries
  /\ pc = "l0_request"
  /\ chunks = <<>>
  /\ calls = <<>>
  /\ complete_capabilities = PyNone
  /\ all_l1_capabilities = <<>>
  /\ l2_chunks = <<>>
  /\ current = 0
  /\ outcome = Running
  /\ call_seconds \in CallSeconds
  /\ elapsed_time = 0
  /\ remaining_time = 0
  /\ response_text = <<>>
  /\ sanitized = <<>>

Batches == IF driver = "app" THEN AppBatches ELSE MaxStreamlitBatches

Asked(kind, prompt) == [kind |-> kind, prompt |-> prompt, answered |-> FALSE, out |-> Answer(<<>>)]
Answered(call, r) == [call EXCEPT !.answered = TRUE, !.out = r]

\* ------------------------------------------------------------ app.py, test_gemini
\* generate_capabilities_chunk is entered: the prompt is built from chunks and sent.
AppL0Request ==
  /\ driver = "app" /\ pc = "l0_request"
  /\ calls' = Append(calls, Asked("L0", l0_prompt(industry, chunks, ChunkSize)))
  /\ pc' = "l0_wait"
  /\ UNCHANGED <<call_seconds, elapsed_time, remaining_time, response_text, sanitized>>
  /\ UNCHANGED <<driver, industry, chunks, complete_capabilities,
                 all_l1_capabilities, l2_chunks, current, outcome>>

\* The generator answers; the chunk is appended, or the RuntimeError is caught
\* and the error payload returned.
AppL0Response ==
  /\ driver = "app" /\ pc = "l0_wait"
  /\ \E r \in L0Outcomes :
       LET chunk == app_generate_capabilities_chunk(r)
       IN  /\ calls' = [calls EXCEPT ![Len(calls)] = Answered(@, r)]
           /\ IF chunk.ok
              THEN /\ chunks' = Append(chunks, chunk.val)
                   /\ pc' = IF Len(chunks) + 1 < AppBatches THEN "l0_request" ELSE "merge"
                   /\ UNCHANGED outcome
              ELSE /\ outcome' =
                        IF chunk.exc.type = "RuntimeError"
                        THEN ErrorPayload("l0", "API exhausted or failed to generate capabilities",
                                          chunk.exc)
                        ELSE Uncaught("l0", chunk.exc)
                   /\ pc' = "done"
                   /\ UNCHANGED chunks
  /\ UNCHANGED <<call_seconds, elapsed_time, remaining_time, response_text, sanitized>>
  /\ UNCHANGED <<driver, industry, complete_capabilities, all_l1_capabilities,
                 l2_chunks, current>>

\* merge_capabilities(chunks), with its except ValueError, then the list of
\* all L1 nodes.
AppMerge ==
  /\ driver = "app" /\ pc = "merge"
  /\ LET merged == merge_capabilities(chunks)
     IN  IF merged.ok
         THEN /\ complete_capabilities' = merged.val
              /\ all_l1_capabilities' = all_l1_of(merged.val)
              /\ pc' = "l2"
              /\ UNCHANGED outcome
         ELSE /\ outcome' =
                   IF merged.exc.type = "ValueError"
                   THEN ErrorPayload("merge", "Failed to merge capabilities", merged.exc)
                   ELSE Uncaught("merge", merged.exc)
              /\ pc' = "done"
              /\ UNCHANGED <<complete_capabilities, all_l1_capabilities>>
  /\ UNCHANGED <<call_seconds, elapsed_time, remaining_time, response_text, sanitized>>
  /\ UNCHANGED <<driver, industry, chunks, calls, l2_chunks, current>>

\* One pass of the L2 loop over all_l1_capabilities.
AppL2Step ==
  /\ driver = "app" /\ pc = "l2" /\ current < Len(all_l1_capabilities)
  /\ \E r \in L2Outcomes :
       LET l1 == all_l1_capabilities[current + 1]
           item == app_l2_item(l1, r)
       IN  /\ calls' = Append(calls, Answered(Asked("L2", l1), r))
           /\ IF item.ok
              THEN /\ l2_chunks' = Append(l2_chunks, item.val)
                   /\ current' = current + 1
                   /\ UNCHANGED <<pc, outcome>>
              ELSE /\ outcome' = Uncaught("l2", item.exc)
                   /\ pc' = "done"
                   /\ UNCHANGED <<l2_chunks, current>>
  /\ UNCHANGED <<call_seconds, elapsed_time, remaining_time, response_text, sanitized>>
  /\ UNCHANGED <<driver, industry, chunks, complete_capabilities, all_l1_capabilities>>

\* The loop is over: merge_l1_to_l2(complete_capabilities, l2_chunks).
AppMergeL1ToL2 ==
  /\ driver = "app" /\ pc = "l2" /\ current = Len(all_l1_capabilities)
  /\ complete_capabilities' = merge_l1_to_l2(complete_capabilities, l2_chunks)
  /\ pc' = "csv"
  /\ UNCHANGED <<call_seconds, elapsed_time, remaining_time, response_text, sanitized>>
  /\ UNCHANGED <<driver, industry, chunks, calls, all_l1_capabilities, l2_chunks,
                 current, outcome>>

\* generate_csv(complete_capabilities) and the text/csv response.
AppGenerateCsv ==
  /\ driver = "app" /\ pc = "csv"
  /\ LET csv_content == app_generate_csv(complete_capabilities)
     IN  outcome' = IF csv_content.ok THEN CsvOut(csv_content.val)
                    ELSE Uncaught("csv", csv_content.exc)
  /\ pc' = "done"
  /\ UNCHANGED <<call_seconds, elapsed_time, remaining_time, response_text, sanitized>>
  /\ UNCHANGED <<driver, industry, chunks, calls, complete_capabilities,
                 all_l1_capabilities, l2_chunks, current>>

\* ---------------------------------------- streamlit_app.py, the button's script
StL0Request ==
  /\ driver = "streamlit" /\ pc = "l0_request"
  /\ calls' = Append(calls, Asked("L0", l0_prompt(industry, chunks, ChunkSize)))
  /\ pc' = "l0_wait"
  /\ UNCHANGED <<call_seconds, elapsed_time, remaining_time, response_text, sanitized>>
  /\ UNCHANGED <<driver, industry, chunks, complete_capabilities,
                 all_l1_capabilities, l2_chunks, current, outcome>>

\* The generator answers; the chunk is appended, or any exception is shown
\* with st.error and the script stopped.
StL0Response ==
  /\ driver = "streamlit" /\ pc = "l0_wait"
  /\ \E r \in L0Outcomes :
       LET chunk == st_generate_capabilities_chunk(r)
       IN  /\ calls' = [calls EXCEPT ![Len(calls)] = Answered(@, r)]
           /\ IF chunk.ok
              THEN /\ chunks' = Append(chunks, chunk.val)
                   /\ pc' = IF Len(chunks) + 1 < MaxStreamlitBatches
                            THEN "l0_request" ELSE "merge"
                   /\ UNCHANGED outcome
              ELSE /\ outcome' = StError("l0", chunk.exc)
                   /\ pc' = "done"
                   /\ UNCHANGED chunks
  /\ UNCHANGED <<call_seconds, elapsed_time, remaining_time, response_text, sanitized>>
  /\ UNCHANGED <<driver, industry, complete_capabilities, all_l1_capabilities,
                 l2_chunks, current>>

\* The merge loop; nothing catches what it raises.
StMerge ==
  /\ driver = "streamlit" /\ pc = "merge"
  /\ LET merged == st_merge(industry, chunks)
     IN  IF merged.ok
         THEN /\ complete_capabilities' = merged.val
              /\ pc' = "l2"
              /\ UNCHANGED outcome
         ELSE /\ outcome' = Uncaught("merge", merged.exc)
              /\ pc' = "done"
              /\ UNCHANGED complete_capabilities
  /\ UNCHANGED <<call_seconds, elapsed_time, remaining_time, response_text, sanitized>>
  /\ UNCHANGED <<driver, industry, chunks, calls, all_l1_capabilities, l2_chunks, current>>

\* merge_l2_capabilities: the number of L1 nodes of the tree.
total_l1(tree) == Len(L1Positions(tree))

\* Seconds the loop estimates for one L1, and seconds it sleeps before each
\* request.
estimated_time_per_l1 == 2
SleepSeconds == 1
total_estimated_time(tree) == total_l1(tree) * estimated_time_per_l1

\* merge_l2_capabilities, one pass of its loops: after a sleep the L2s of the
\* next L1 are asked for and set on it, and the progress text is written with
\* the remaining time; nothing catches what the request raises.
StL2Step ==
  /\ driver = "streamlit" /\ pc = "l2"
  /\ current < total_l1(complete_capabilities)
  /\ \E r \in L2Outcomes :
       LET pos == L1Positions(complete_capabilities)[current + 1]
           l2_capabilities == st_generate_l2_capabilities(r)
       IN  /\ calls' = Append(calls, Answered(Asked("L2", L1At(complete_capabilities, pos)), r))
           /\ IF l2_capabilities.ok
              THEN /\ complete_capabilities' =
                        st_attach(complete_capabilities, pos, l2_capabilities.val)
                   /\ current' = current + 1
                   /\ elapsed_time' = elapsed_time + SleepSeconds + call_seconds
                   /\ remaining_time' =
                        total_estimated_time(complete_capabilities) - elapsed_time'
                   /\ UNCHANGED <<pc, outcome>>
              ELSE /\ outcome' = Uncaught("l2", l2_capabilities.exc)
                   /\ pc' = "done"
                   /\ UNCHANGED <<complete_capabilities, current, elapsed_time,
                                  remaining_time>>
  /\ UNCHANGED <<call_seconds, response_text, sanitized>>
  /\ UNCHANGED <<driver, industry, chunks, all_l1_capabilities, l2_chunks>>

\* merge_l2_capabilities returns the tree.
StL2Return ==
  /\ driver = "streamlit" /\ pc = "l2"
  /\ current = total_l1(complete_capabilities)
  /\ pc' = "csv"
  /\ UNCHANGED <<call_seconds, elapsed_time, remaining_time, response_text, sanitized>>
  /\ UNCHANGED <<driver, industry, chunks, calls, complete_capabilities,
                 all_l1_capabilities, l2_chunks, current, outcome>>

\* generate_csv(complete_capabilities) and the download button.
StGenerateCsv ==
  /\ driver = "streamlit" /\ pc = "csv"
  /\ LET csv_data == st_generate_csv(complete_capabilities)
     IN  outcome' = IF csv_data.ok THEN CsvOut(csv_data.val)
                    ELSE Uncaught("csv", csv_data.exc)
  /\ pc' = "done"
  /\ UNCHANGED <<call_seconds, elapsed_time, remaining_time, response_text, sanitized>>
  /\ UNCHANGED <<driver, industry, chunks, calls, complete_capabilities,
                 all_l1_capabilities, l2_chunks, current>>

Next ==
  \/ AppL0Request \/ AppL0Response \/ AppMerge \/ AppL2Step
  \/ AppMergeL1ToL2 \/ AppGenerateCsv
  \/ StL0Request \/ StL0Response \/ StMerge \/ StL2Step
  \/ StL2Return \/ StGenerateCsv

Spec == Init /\ [][Next]_vars

\* ------------------------------------------------- merge, on any chunk list
\* The chunks merge may be handed: batch texts (what merge_capabilities
\* parses), parsed batches (what the streamlit loop reads), and values that
\* are neither.
MergeChunkValues ==
  {PyStr(<<"{B1}">>), PyStr(<<"{B2}">>), PyStr(<<"{B3}">>), PyStr(<<"{B4}">>),
   PyStr(NotJson), DocValue("{B1}"), DocValue("{B2}"), DocValue("{B4}"), PyNone}

RECURSIVE SeqsUpTo(_, _)
SeqsUpTo(S, n) ==
  IF n = 0 THEN {<<>>}
  ELSE LET shorter == SeqsUpTo(S, n - 1)
       IN  shorter \cup {Append(q, x) : q \in shorter, x \in S}

MergeInit ==
  /\ driver \in Drivers
  /\ industry \in Industries
  /\ pc = "merge"
  /\ chunks \in SeqsUpTo(MergeChunkValues, MaxChunks)
  /\ calls = <<>>
  /\ complete_capabilities = PyNone
  /\ all_l1_capabilities = <<>>
  /\ l2_chunks = <<>>
  /\ current = 0
  /\ outcome = Running
  /\ call_seconds \in CallSeconds
  /\ elapsed_time = 0
  /\ remaining_time = 0
  /\ response_text = <<>>
  /\ sanitized = <<>>

MergeNext == AppMerge \/ StMerge

MergeSpec == MergeInit /\ [][MergeNext]_vars

\* ------------------------------------------- sanitize_response on any text
\* The longest text handed to sanitize_response, in tokens.
MaxTokens == 5
\* The pieces the texts are made of: a fence, a single backtick, the word
\* json, a blank and a letter.
Tokens == {Fence, <<Backtick>>, <<"j", "s", "o", "n">>, <<" ">>, <<"x">>}

RECURSIVE TextsUpTo(_)
TextsUpTo(n) ==
  IF n = 0 THEN {<<>>}
  ELSE LET shorter == TextsUpTo(n - 1)
       IN  shorter \cup {t \o tok : t \in shorter, tok \in Tokens}

SanitizeInit ==
  /\ driver \in Drivers
  /\ industry \in Industries
  /\ pc = "sanitize"
  /\ chunks = <<>>
  /\ calls = <<>>
  /\ complete_capabilities = PyNone
  /\ all_l1_capabilities = <<>>
  /\ l2_chunks = <<>>
  /\ current = 0
  /\ outcome = Running
  /\ call_seconds = 0
  /\ elapsed_time = 0
  /\ remaining_time = 0
  /\ response_text \in TextsUpTo(MaxTokens)
  /\ sanitized = <<>>

\* sanitize_response(response_text)
Sanitize ==
  /\ pc = "sanitize"
  /\ sanitized' = sanitize_response(response_text)
  /\ pc' = "sanitized"
  /\ UNCHANGED <<call_seconds, elapsed_time, remaining_time, response_text>>
  /\ UNCHANGED <<driver, industry, chunks, calls, complete_capabilities,
                 all_l1_capabilities, l2_chunks, current, outcome>>

SanitizeNext == Sanitize

SanitizeSpec == SanitizeInit /\ [][SanitizeNext]_vars

\* ---------------------------------------------------------------- properties
\* generate_csv has been called in this run.
CsvInvoked == pc = "done" /\ outcome.stage = "csv"
\* The L2 attach has ended without raising.
AttachDone == pc = "csv" \/ CsvInvoked

RECURSIVE SumSeq(_)
SumSeq(q) == IF Len(q) = 0 THEN 0 ELSE Head(q) + SumSeq(Tail(q))

L1Count(tree) == Len(L1Positions(tree))
L2Count(tree) ==
  SumSeq([k \in 1..L1Count(tree) |->
            Len(get_L2_capabilities(L1At(tree, L1Positions(tree)[k])))])
ValidL2Count(tree) ==
  SumSeq([k \in 1..L1Count(tree) |->
            Len(SelectSeq(get_L2_capabilities(L1At(tree, L1Positions(tree)[k])),
                          is_valid_l2))])

\* L1 node k of the tree, in document order, has the key L2_capabilities.
HasL2(tree, k) == "L2_capabilities" \in DOMAIN L1At(tree, L1Positions(tree)[k])

\* What the text of an answered call parses to.
Parsed(call) == json_loads(PyStr(sanitize_response(call.out.text)))
CallFailed(call) == call.answered /\ (call.out.raised \/ ~Parsed(call).ok)
\* The answer is JSON of the shape the prompt mandates: an object with the
\* six batch keys for an L0 request, an array of L2 objects for an L2 request.
WellFormedAnswer(call) ==
  /\ call.answered /\ ~CallFailed(call)
  /\ IF call.kind = "L0"
     THEN Parsed(call).val.py = "dict" /\ FirstMissing(Parsed(call).val, BatchKeys) = ""
     ELSE \A i \in 1..Len(Parsed(call).val) : is_valid_l2(Parsed(call).val[i])

\* C1: in the app.py driver, a run in which every generation call succeeds
\* with well-formed JSON of the mandated shape ends by returning a CSV with
\* one data row per L2 entry attached in the tree.
C1_WellFormedRunReturnsCsv ==
  (driver = "app" /\ pc = "done" /\ \A k \in 1..Len(calls) : WellFormedAnswer(calls[k]))
    => /\ outcome.kind = "csv"
       /\ Len(outcome.csv) = 1 + L2Count(complete_capabilities)

\* The batch merge reads from a chunk: merge_capabilities parses it from its
\* text, the streamlit loop takes the parsed batch.
BatchOf(chunk) == IF driver = "app" THEN json_loads(chunk).val ELSE chunk
ValidBatch(chunk) ==
  IF driver = "app"
  THEN /\ chunk.py = "str" /\ json_loads(chunk).ok
       /\ json_loads(chunk).val.py = "dict"
       /\ FirstMissing(json_loads(chunk).val, BatchKeys) = ""
  ELSE chunk.py = "dict" /\ "L0_capabilities" \in DOMAIN chunk

RECURSIVE ConcatL0(_)
ConcatL0(batches) ==
  IF Len(batches) = 0 THEN <<>>
  ELSE Head(batches).L0_capabilities \o ConcatL0(Tail(batches))

\* C2: for every valid batch sequence, merge succeeds and the tree's L0
\* children are the batches' L0 children concatenated in arrival order,
\* verbatim; their number is the sum of the batches' actual L0 numbers,
\* whatever the advisory count fields say.
C2_MergeConcatenatesL0 ==
  (pc # "merge" /\ \A k \in 1..Len(chunks) : ValidBatch(chunks[k]))
    => /\ pc = "l2"
       /\ complete_capabilities.L0_capabilities =
            ConcatL0([k \in 1..Len(chunks) |-> BatchOf(chunks[k])])
       /\ Len(complete_capabilities.L0_capabilities) =
            SumSeq([k \in 1..Len(chunks) |-> Len(BatchOf(chunks[k]).L0_capabilities)])

\* C2 witness: merge_capabilities has merged two batches, one of them with an
\* advisory L0 count that is not its number of L0 children.
C2_Witness ==
  /\ driver = "app" /\ pc = "l2" /\ Len(chunks) = 2
  /\ \A k \in 1..2 : ValidBatch(chunks[k])
  /\ \E k \in 1..2 :
       BatchOf(chunks[k]).L0_capabilities_count # Len(BatchOf(chunks[k]).L0_capabilities)
  /\ Len(complete_capabilities.L0_capabilities) = 3

\* C3: generate_csv, called on a tree that holds L2 entries lacking a
\* required field or being no object, does not fail, and emits exactly the
\* rows of the well-formed entries.
C3_MalformedL2Skipped ==
  CsvInvoked
    => /\ outcome.kind = "csv"
       /\ Len(outcome.csv) = 1 + ValidL2Count(complete_capabilities)

\* The arrays the generator returned for the L2 requests were all non-empty.
AllL2AnswersNonEmpty ==
  \A k \in 1..Len(calls) :
    (calls[k].kind = "L2" /\ ~CallFailed(calls[k])) => Len(Parsed(calls[k]).val) > 0

C5_EveryFailureIsAPayload ==
  (driver = "app" /\ pc = "done" /\ outcome.kind # "csv")
    => outcome.kind = "error_payload"

\* What generate_capabilities_chunk raises when the external call itself fails.
CallFailureError ==
  IF driver = "app" THEN app_generate_capabilities_chunk(CallRaises).exc
  ELSE st_generate_capabilities_chunk(CallRaises).exc

\* C6: when the generator returned text that is no JSON, the error
\* generate_capabilities_chunk raised is not the raw JSON parse exception and
\* differs, in type or message, from the one a failed call raises.
C6_MalformedResponseError ==
  (pc = "done" /\ outcome.stage = "l0" /\ ~calls[Len(calls)].out.raised)
    => /\ outcome.exc.type # "JSONDecodeError"
       /\ \/ outcome.exc.type # CallFailureError.type
          \/ outcome.exc.msg # CallFailureError.msg

\* C7: once an L2 request has failed (the call raised, or its answer did not
\* parse), generate_csv is never reached and no CSV is returned; and the tree
\* generate_csv is called on never has L2 children on some L1 nodes only.
C7_NoCsvAfterL2Failure ==
  /\ (\E k \in 1..Len(calls) : calls[k].kind = "L2" /\ CallFailed(calls[k]))
       => (pc # "csv" /\ ~CsvInvoked /\ outcome.kind # "csv")
  /\ CsvInvoked
       => \/ \A k \in 1..L1Count(complete_capabilities) : HasL2(complete_capabilities, k)
          \/ \A k \in 1..L1Count(complete_capabilities) : ~HasL2(complete_capabilities, k)

\* C7 witness: the streamlit run has ended on a failed L2 request with L2
\* children set on some L1 nodes and not on others.
C7_Witness ==
  /\ driver = "streamlit" /\ pc = "done" /\ outcome.stage = "l2"
  /\ CallFailed(calls[Len(calls)])
  /\ \E k \in 1..L1Count(complete_capabilities) : HasL2(complete_capabilities, k)
  /\ \E k \in 1..L1Count(complete_capabilities) : ~HasL2(complete_capabilities, k)

\* C8: the k-th L0 request is issued when the answers of the k-1 requests
\* before it have been received and stored in chunks, and the prompt of the
\* k-th request lists exactly these k-1 batches, in arrival order.
C8_L0RequestsInSequence ==
  \A k \in 1..Len(calls) :
    calls[k].kind = "L0"
      => /\ \A j \in 1..(k - 1) : calls[j].kind = "L0" /\ calls[j].answered
         /\ Len(chunks) >= k - 1
         /\ calls[k].prompt.already = SubSeq(chunks, 1, k - 1)
         /\ Len(calls[k].prompt.already) = k - 1
         /\ ~calls[k].answered => (k = Len(calls) /\ Len(chunks) = k - 1)

\* C8 witness: the third batch has been requested with the two batches
\* before it, which differ, in its prompt.
C8_Witness ==
  /\ Len(calls) >= 3 /\ calls[3].kind = "L0" /\ calls[3].answered
  /\ Len(calls[3].prompt.already) = 2
  /\ calls[3].prompt.already[1] # calls[3].prompt.already[2]

RECURSIVE FirstNonEmpty(_)
FirstNonEmpty(q) ==
  IF Len(q) = 0 THEN ""
  ELSE IF Head(q) # "" THEN Head(q) ELSE FirstNonEmpty(Tail(q))

\* C9 as stated: merge_capabilities takes the industry name and description
\* from the first batch that supplies non-empty values.
C9_FirstNonEmptyWins ==
  (driver = "app" /\ pc = "l2")
    => /\ complete_capabilities.industry =
            FirstNonEmpty([k \in 1..Len(chunks) |-> BatchOf(chunks[k]).industry])
       /\ complete_capabilities.industry_description =
            FirstNonEmpty([k \in 1..Len(chunks) |-> BatchOf(chunks[k]).industry_description])

\* C9 amended: merge_capabilities takes the industry name and description
\* from the last batch, empty or not (and leaves them empty for no batch).
C9_LastBatchWins ==
  (driver = "app" /\ pc = "l2")
    => IF Len(chunks) = 0
       THEN /\ complete_capabilities.industry = ""
            /\ complete_capabilities.industry_description = ""
       ELSE /\ complete_capabilities.industry = BatchOf(chunks[Len(chunks)]).industry
            /\ complete_capabilities.industry_description =
                 BatchOf(chunks[Len(chunks)]).industry_description

\* C9 witness: merge_capabilities has merged two batches whose industry
\* fields are non-empty and differ.
C9_Witness ==
  /\ driver = "app" /\ pc = "l2" /\ Len(chunks) = 2
  /\ BatchOf(chunks[1]).industry # ""
  /\ BatchOf(chunks[2]).industry # ""
  /\ BatchOf(chunks[1]).industry # BatchOf(chunks[2]).industry

\* C10: when the app.py run returns the CSV, the three count fields of the
\* tree are the numbers of its L0, L1 and L2 nodes.
C10_CountsAreCardinalities ==
  (driver = "app" /\ outcome.kind = "csv")
    => /\ complete_capabilities.L0_capabilities_count =
            Len(complete_capabilities.L0_capabilities)
       /\ complete_capabilities.L1_capabilities_count = L1Count(complete_capabilities)
       /\ complete_capabilities.L2_capabilities_count = L2Count(complete_capabilities)

\* The L2 entries of a tree in document order, as <<i, j, m>>: entry m of
\* L1 j of L0 i, from L1 node k on.
RECURSIVE TriplesFrom(_, _)
TriplesFrom(tree, k) ==
  IF k > L1Count(tree) THEN <<>>
  ELSE LET pos == L1Positions(tree)[k]
       IN  [m \in 1..Len(get_L2_capabilities(L1At(tree, pos))) |-> <<pos[1], pos[2], m>>]
           \o TriplesFrom(tree, k + 1)

L2Calls == SelectSeq(calls, LAMBDA c : c.kind = "L2")

\* C14: in the app.py pipeline, after merge_l1_to_l2 every L1 node holds the
\* L2 sequence returned by the request made for that node, also when two L1
\* nodes have the same name and description.
C14_EveryL1HoldsItsOwnL2 ==
  (driver = "app" /\ AttachDone)
    => \A k \in 1..L1Count(complete_capabilities) :
         get_L2_capabilities(L1At(complete_capabilities,
                                  L1Positions(complete_capabilities)[k]))
           = Parsed(L2Calls[k]).val

\* C15: in merge_l2_capabilities the remaining time reported after the
\* current-th L1 is (total_l1 - current) * estimated_time_per_l1: never
\* negative, and zero once every L1 is done, however long the calls took.
C15_RemainingIsEstimateOfTheRest ==
  (driver = "streamlit" /\ pc \in {"l2", "csv", "done"} /\ current >= 1)
    => /\ remaining_time =
            (total_l1(complete_capabilities) - current) * estimated_time_per_l1
       /\ remaining_time >= 0
       /\ current = total_l1(complete_capabilities) => remaining_time = 0

\* pat occurs in text.
Contains(text, pat) ==
  \E i \in 1..(Len(text) - Len(pat) + 1) : SubSeq(text, i, i + Len(pat) - 1) = pat

\* C12: sanitize_response is idempotent: sanitizing what it returned returns
\* the same text, also when removing one marker brings backticks and json
\* together into a new marker.
C12_SanitizeIdempotent ==
  pc = "sanitized" => sanitize_response(sanitized) = sanitized

\* C12 witness: removing the json fences of the text has left a json fence
\* that was not in one piece before.
C12_Witness ==
  /\ pc = "sanitized"
  /\ Contains(str_replace(response_text, FenceJson, <<>>), FenceJson)

AllWhitespace(text) == \A i \in 1..Len(text) : text[i] \in Whitespace

\* C13 as stated: a text with no code-fence marker is returned unchanged.
C13_NoMarkerUnchanged ==
  (pc = "sanitized" /\ ~Contains(response_text, Fence)) => sanitized = response_text

\* C13: a text with no code-fence marker is returned with its leading and
\* trailing whitespace removed and otherwise unchanged: unchanged when it
\* neither starts nor ends with whitespace.
C13_NoMarkerOnlyStripped ==
  (pc = "sanitized" /\ ~Contains(response_text, Fence))
    => /\ \E i \in 0..Len(response_text) :
            /\ i + Len(sanitized) <= Len(response_text)
            /\ AllWhitespace(SubSeq(response_text, 1, i))
            /\ SubSeq(response_text, i + 1, i + Len(sanitized)) = sanitized
            /\ AllWhitespace(SubSeq(response_text, i + Len(sanitized) + 1,
                                    Len(response_text)))
       /\ Len(sanitized) > 0
            => sanitized[1] \notin Whitespace /\ sanitized[Len(sanitized)] \notin Whitespace

\* C13 witness: a text with no marker and with blanks around a word has been
\* sanitized.
C13_Witness ==
  /\ pc = "sanitized" /\ ~Contains(response_text, Fence)
  /\ Len(sanitized) > 0
  /\ Len(sanitized) < Len(response_text)
====
